---- MODULE Spec2Model ----
(***************************************************************************)
(* A model of the two Ansible modules of this repository:                  *)
(*   ec2_vpc_route_table.py  reconciles an AWS VPC route table (routes,    *)
(*                           subnet associations, propagation, tags);      *)
(*   rax_mon_alarm.py        reconciles a Rackspace monitoring alarm.      *)
(* The cloud provider is a store (the variable aws) that the module reads  *)
(* and changes through the calls of its client (vpc_conn); one invocation  *)
(* of the module is a run of main() through the steps of                   *)
(* ensure_route_table_present or ensure_route_table_absent.                *)
(***************************************************************************)
EXTENDS Integers, Sequences, FiniteSets, TLC

VARIABLES
    aws,         \* the provider's state: route tables, tags, routes, associations
    subnetsDb,   \* the subnets of the VPC, in the order the API lists them
    igws,        \* the internet gateways attached to the VPC, in listing order
    params,      \* module.params and module.check_mode of the invocation
    pc,          \* the position of the invocation in main()
    route_table, \* the local route_table of ensure_route_table_present/absent
    changed,     \* the local changed of ensure_route_table_present
    tags_valid,  \* the local tags_valid of ensure_route_table_present
    routes,      \* the local routes of main(), after the loop that resolves them
    found,       \* what find_subnets returned or raised
    result,      \* how main() ended: exit_json, fail_json or an unhandled exception
    calls,       \* the mutating API calls issued by the current run, in order
    fault,       \* the API call the provider answers with an EC2ResponseError
    run,         \* the number of the current run (runs repeat the same params)
    first,       \* the first run: its result, its calls, the state it started in
    aws0,        \* the provider's state when the current run started
    \* rax_mon_alarm.py
    cm,            \* pyrax.cloud_monitoring: the alarms the provider holds
    rax_params,    \* module.params of the invocation of rax_mon_alarm
    rax_pc,        \* the position of the invocation in alarm()
    existing,      \* the local existing of alarm()
    alarm,         \* the local alarm of alarm()
    should,        \* the locals should_create, should_update, should_delete
    rax_changed,   \* the local changed of alarm()
    rax_result,    \* how alarm() ended: exit_json, fail_json or an exception
    rax_calls,     \* the mutating calls issued by the current run, in order
    rax_fault,     \* the call of the client that raises an exception
    rax_run,       \* the number of the current run of rax_mon_alarm
    rax_first,     \* the first run: its result and its calls
    cm0            \* the alarms when the current run started

ec2_vars == <<aws, subnetsDb, igws, params, pc, route_table, changed, tags_valid,
              routes, found, result, calls, fault, run, first, aws0>>

rax_vars == <<cm, rax_params, rax_pc, existing, alarm, should, rax_changed,
              rax_result, rax_calls, rax_fault, rax_run, rax_first, cm0>>

vars == <<ec2_vars, rax_vars>>

(***************************************************************************)
(* Python values.  None is the string "None" where the value is a string,  *)
(* the number 0 where it is a route table or association ID, and the empty *)
(* tuple where it is a list or a dict: Some(v) is then the tuple <<v>>.    *)
(***************************************************************************)
None == "None"
Nothing == <<>>
Some(v) == <<v>>
IsNone(o) == o = <<>>
Val(o) == o[1]

Range(s) == {s[i] : i \in 1..Len(s)}

\* Python's list concatenation of the results of a comprehension.
RECURSIVE Flatten(_)
Flatten(ss) == IF ss = <<>> THEN <<>> ELSE Head(ss) \o Flatten(Tail(ss))

\* All sequences over S of length at most n.
RECURSIVE SeqsUpTo(_, _)
SeqsUpTo(S, n) ==
    IF n = 0 THEN {<<>>}
    ELSE LET shorter == SeqsUpTo(S, n - 1)
         IN  shorter \cup {Append(s, e) : s \in {t \in shorter : Len(t) = n - 1}, e \in S}

(***************************************************************************)
(* find_subnets                                                            *)
(***************************************************************************)
\* The strings SUBNET_RE and CIDR_RE match, among those the model draws.
SubnetIdForms == {"subnet-1", "subnet-2", "subnet-3", "subnet-9"}
CidrForms == {"10.0.1.0/24", "10.0.2.0/24", "10.0.3.0/24", "10.0.9.0/24"}
SUBNET_RE(s) == s \in SubnetIdForms
CIDR_RE(s) == s \in CidrForms

\* vpc_conn.get_all_subnets(subnet_ids, filters={'vpc_id': vpc_id})
get_all_subnets_by_id(db, subnet_ids) ==
    SelectSeq(db, LAMBDA s : s.id \in Range(subnet_ids))
\* vpc_conn.get_all_subnets(filters={'vpc_id': vpc_id, 'cidr': subnet_cidrs})
get_all_subnets_by_cidr(db, subnet_cidrs) ==
    SelectSeq(db, LAMBDA s : s.cidr_block \in Range(subnet_cidrs))
\* vpc_conn.get_all_subnets(filters={'vpc_id': vpc_id, 'tag:Name': subnet_names})
get_all_subnets_by_name(db, subnet_names) ==
    SelectSeq(db, LAMBDA s : s.name \in Range(subnet_names))

\* The check of the name-form identifiers: matching is a list of booleans, one
\* per subnet the batched lookup returned, so its length does not depend on name.
NameCheck(subnets_by_name, name) ==
    LET matching == [i \in 1..Len(subnets_by_name) |-> subnets_by_name[i].name = name]
    IN  IF Len(matching) = 0 THEN "does not exist"
        ELSE IF Len(matching) > 1 THEN "Multiple subnets"
        ELSE None

Raised(exc, msg) == [exc |-> exc, msg |-> msg, subnets |-> <<>>]

find_subnets(db, identified_subnets) ==
    LET ids == IF IsNone(identified_subnets) THEN <<>> ELSE Val(identified_subnets)
        subnet_ids == SelectSeq(ids, SUBNET_RE)
        subnet_cidrs == SelectSeq(ids, LAMBDA s : ~SUBNET_RE(s) /\ CIDR_RE(s))
        subnet_names == SelectSeq(ids, LAMBDA s : ~SUBNET_RE(s) /\ ~CIDR_RE(s))
        subnets_by_id == IF subnet_ids # <<>>
                         THEN get_all_subnets_by_id(db, subnet_ids) ELSE <<>>
        subnets_by_cidr == IF subnet_cidrs # <<>>
                           THEN get_all_subnets_by_cidr(db, subnet_cidrs) ELSE <<>>
        subnets_by_name == IF subnet_names # <<>>
                           THEN get_all_subnets_by_name(db, subnet_names) ELSE <<>>
    IN  IF \E i \in 1..Len(subnet_ids) :
               \A s \in Range(subnets_by_id) : s.id # subnet_ids[i]
        THEN Raised("AnsibleSubnetSearchException", "Subnet ID does not exist")
        ELSE IF \E i \in 1..Len(subnet_cidrs) :
                    \A s \in Range(subnets_by_cidr) : s.cidr_block # subnet_cidrs[i]
        \* the message names subnet_cidr, which is not defined: a NameError
        THEN Raised("NameError", "global name subnet_cidr is not defined")
        ELSE IF \E i \in 1..Len(subnet_names) :
                    NameCheck(subnets_by_name, subnet_names[i]) # None
        THEN Raised("AnsibleSubnetSearchException",
                    NameCheck(subnets_by_name, subnet_names[1]))
        ELSE [exc |-> None, msg |-> None,
              subnets |-> subnets_by_id \o subnets_by_cidr \o subnets_by_name]

(***************************************************************************)
(* find_igw                                                                *)
(***************************************************************************)
\* What find_igw hands back: a value, or an exception it raises.  With no
\* internet gateway the code RETURNS the exception object instead of raising
\* it; the object then stands where a gateway ID is expected.
IgwExceptionObject == "AnsibleIgwSearchException('No IGW found')"

find_igw(gateways) ==
    IF Len(gateways) = 0
    THEN [exc |-> None, value |-> IgwExceptionObject]
    ELSE IF Len(gateways) = 1
    THEN [exc |-> None, value |-> gateways[1]]
    ELSE [exc |-> "AnsibleIgwSearchException", value |-> None]

(***************************************************************************)
(* Tags                                                                    *)
(***************************************************************************)
NoTags == [k \in {} |-> None]

\* get_resource_tags: the dict of the tags the provider holds for the resource.
get_resource_tags(world, resource_id) == world.tags[resource_id]

tags_match(match_tags, candidate_tags) ==
    \A k \in DOMAIN match_tags :
        k \in DOMAIN candidate_tags /\ candidate_tags[k] = match_tags[k]

(***************************************************************************)
(* The provider.  A route is a record of the five attributes the module    *)
(* reads; a route table has an ID (a positive number), routes, tags,       *)
(* associations with subnets and propagating gateways.                     *)
(***************************************************************************)
Route(dest, gw, inst) ==
    [destination_cidr_block |-> dest, gateway_id |-> gw, instance_id |-> inst,
     interface_id |-> None, vpc_peering_connection_id |-> None]

NoRoute == Route(None, None, None)

\* A route_spec is a dict: a function whose domain is the keys it holds.
SpecValue(route_spec, k) == IF k \in DOMAIN route_spec THEN route_spec[k] ELSE None

\* The route the provider stores for create_route(**route_spec).
RouteOfSpec(route_spec) ==
    [destination_cidr_block |-> SpecValue(route_spec, "destination_cidr_block"),
     gateway_id |-> SpecValue(route_spec, "gateway_id"),
     instance_id |-> SpecValue(route_spec, "instance_id"),
     interface_id |-> SpecValue(route_spec, "interface_id"),
     vpc_peering_connection_id |-> SpecValue(route_spec, "vpc_peering_connection_id")]

\* One call of the client.  Every field is present in every call so that calls
\* compare; the fields a call does not use keep the values of NoCall.
NoCall == [op |-> None, rtb |-> 0, subnet |-> None, assoc |-> 0, vgw |-> None,
           route |-> NoRoute, tags |-> NoTags, dry_run |-> FALSE, ok |-> TRUE]

Call(op, dry_run) == [NoCall EXCEPT !.op = op, !.dry_run = dry_run]

\* The associations of a route table, as route_table.associations lists them.
AssociationsOf(world, rtb) ==
    SelectSeq(world.assocs, LAMBDA a : a.route_table_id = rtb)

\* Removing the entries of a function for one key.
Without(f, k) == [x \in DOMAIN f \ {k} |-> f[x]]

\* The local route of a new route table (the VPC's own CIDR block).
VpcCidr == "10.0.0.0/16"
LocalRoute == Route(VpcCidr, "local", None)

\* The provider's state after a call that it accepts.
ApiApply(world, c) ==
    CASE c.op = "create_route_table" ->
           LET id == world.next_rtb
           IN  [world EXCEPT !.tables = Append(@, id),
                             !.tags = (id :> NoTags) @@ @,
                             !.routes = (id :> <<LocalRoute>>) @@ @,
                             !.propagation = (id :> {}) @@ @,
                             !.next_rtb = @ + 1]
      [] c.op = "delete_route_table" ->
           [world EXCEPT !.tables = SelectSeq(@, LAMBDA t : t # c.rtb),
                         !.tags = Without(@, c.rtb),
                         !.routes = Without(@, c.rtb),
                         !.propagation = Without(@, c.rtb),
                         !.assocs = SelectSeq(@, LAMBDA a : a.route_table_id # c.rtb)]
      [] c.op = "enable_vgw_route_propagation" ->
           [world EXCEPT !.propagation[c.rtb] = @ \cup {c.vgw}]
      [] c.op = "create_tags" ->
           [world EXCEPT !.tags[c.rtb] = c.tags @@ @]
      [] c.op = "delete_tags" ->
           [world EXCEPT !.tags[c.rtb] =
                [k \in DOMAIN @ \ DOMAIN c.tags |-> @[k]]]
      [] c.op = "create_route" ->
           \* reached for a destination the table holds only when the provider
           \* replaces the route of that destination (see ApiRejects)
           IF \E i \in 1..Len(world.routes[c.rtb]) :
                  world.routes[c.rtb][i].destination_cidr_block
                      = c.route.destination_cidr_block
           THEN [world EXCEPT !.routes[c.rtb] =
                    [i \in 1..Len(@) |->
                        IF @[i].destination_cidr_block = c.route.destination_cidr_block
                        THEN c.route ELSE @[i]]]
           ELSE [world EXCEPT !.routes[c.rtb] = Append(@, c.route)]
      [] c.op = "delete_route" ->
           [world EXCEPT !.routes[c.rtb] =
                SelectSeq(@, LAMBDA r : r.destination_cidr_block
                                          # c.route.destination_cidr_block)]
      [] c.op = "associate_route_table" ->
           [world EXCEPT !.assocs = Append(@, [id |-> world.next_assoc,
                                               route_table_id |-> c.rtb,
                                               subnet_id |-> c.subnet]),
                         !.next_assoc = @ + 1]
      [] c.op = "disassociate_route_table" ->
           [world EXCEPT !.assocs = SelectSeq(@, LAMBDA a : a.id # c.assoc)]
      [] OTHER -> world

(***************************************************************************)
(* A frame is the state a function of the module runs in: the provider's   *)
(* state, the calls issued so far, the exception raised (None: none), and  *)
(* what the function returns ('changed', and an ID where it returns one).  *)
(***************************************************************************)
Frame(world, cs) == [aws |-> world, calls |-> cs, exc |-> None, changed |-> FALSE,
                     ret |-> 0]

\* Whether the table of the call holds a route to the call's destination.
HoldsDestination(world, c) ==
    /\ c.rtb \in DOMAIN world.routes
    /\ \E i \in 1..Len(world.routes[c.rtb]) :
           world.routes[c.rtb][i].destination_cidr_block
               = c.route.destination_cidr_block

\* The provider refuses a call: the injected fault, or a create_route for a
\* destination the table already routes when the provider keeps one route per
\* destination by refusing (dup = "error") rather than by replacing.
ApiRejects(world, c, dup) ==
    \/ fault = c.op
    \/ c.op = "create_route" /\ dup = "error" /\ HoldsDestination(world, c)

\* Issue call c: vpc_conn.<op>(..., dry_run=...).  A dry-run call is checked
\* by the provider and changes nothing.
Do(f, c, dup) ==
    IF f.exc # None THEN f
    ELSE IF ApiRejects(f.aws, c, dup)
    THEN [f EXCEPT !.calls = Append(@, [c EXCEPT !.ok = FALSE]),
                   !.exc = "EC2ResponseError"]
    ELSE [f EXCEPT !.aws = IF c.dry_run THEN @ ELSE ApiApply(@, c),
                   !.calls = Append(@, c)]

\* A read of the provider (get_all_...): it raises under the injected fault.
Read(f, op) ==
    IF f.exc = None /\ fault = op THEN [f EXCEPT !.exc = "EC2ResponseError"] ELSE f

(***************************************************************************)
(* ensure_tags                                                             *)
(***************************************************************************)
ensure_tags_body(f, resource_id, tags, add_only, check_mode) ==
    LET f0 == Read(f, "get_all_tags")
        cur_tags == get_resource_tags(f.aws, resource_id)
        to_delete == [k \in DOMAIN cur_tags \ DOMAIN tags |-> cur_tags[k]]
        to_add == [k \in DOMAIN tags \ DOMAIN cur_tags |-> tags[k]]
        f1 == IF DOMAIN to_delete # {} /\ ~add_only
              THEN Do(f0, [Call("delete_tags", check_mode) EXCEPT
                               !.rtb = resource_id, !.tags = to_delete], "error")
              ELSE f0
        f2 == IF DOMAIN to_add # {}
              THEN Do(f1, [Call("create_tags", check_mode) EXCEPT
                               !.rtb = resource_id, !.tags = to_add], "error")
              ELSE f1
    IN  IF f0.exc # None THEN f0
        ELSE IF tags = cur_tags THEN [f0 EXCEPT !.changed = FALSE]
        ELSE [f2 EXCEPT !.changed = TRUE]

\* ensure_tags that removes the tags that are not desired whatever add_only is.
ensure_tags_removing(f, resource_id, tags, add_only, check_mode) ==
    LET g == ensure_tags_body(f, resource_id, tags, FALSE, check_mode)
    IN  IF g.exc = "EC2ResponseError"
        THEN [g EXCEPT !.exc = "AnsibleTagCreationException"] ELSE g

\* except EC2ResponseError: raise AnsibleTagCreationException
ensure_tags(f, resource_id, tags, add_only, check_mode) ==
    LET g == ensure_tags_body(f, resource_id, tags, add_only, check_mode)
    IN  IF g.exc = "EC2ResponseError"
        THEN [g EXCEPT !.exc = "AnsibleTagCreationException"] ELSE g

(***************************************************************************)
(* Locating the route table                                                *)
(***************************************************************************)
\* The boto RouteTable object: the ID and the routes and associations the
\* table had when it was fetched.  NoTable is Python's None.
NoTable == [id |-> 0, routes |-> <<>>, associations |-> <<>>]

TableObject(world, id) ==
    [id |-> id, routes |-> world.routes[id], associations |-> AssociationsOf(world, id)]

\* get_route_table_by_id without the route_table_ids filter of the lookup.
get_route_table_by_id_unfiltered(world, route_table_id) ==
    IF world.tables = <<>> THEN NoTable ELSE TableObject(world, world.tables[1])

get_route_table_by_id(world, route_table_id) ==
    IF route_table_id \in Range(world.tables)
    THEN TableObject(world, route_table_id) ELSE NoTable

\* The first table, in listing order, whose tags match; None when none does.
get_route_table_by_tags(world, tags) ==
    LET matches == SelectSeq(world.tables,
                             LAMBDA t : tags_match(tags, get_resource_tags(world, t)))
    IN  IF matches = <<>> THEN NoTable ELSE TableObject(world, matches[1])

(***************************************************************************)
(* ensure_routes                                                           *)
(***************************************************************************)
RouteKeys == {"destination_cidr_block", "gateway_id", "instance_id",
              "interface_id", "vpc_peering_connection_id"}

route_spec_matches_route(route_spec, route) ==
    \A k \in RouteKeys : k \in DOMAIN route_spec => route_spec[k] = route[k]

\* The index of the first matching route; 0 stands for Python's None.
index_of_matching_route(route_spec, routes_to_match) ==
    LET hits == {i \in 1..Len(routes_to_match) :
                    route_spec_matches_route(route_spec, routes_to_match[i])}
    IN  IF hits = {} THEN 0 ELSE CHOOSE i \in hits : \A j \in hits : i <= j

\* del routes_to_match[i] that deletes nothing.
RemoveAtKept(s, i) == s

RemoveAt(s, i) == SubSeq(s, 1, i - 1) \o SubSeq(s, i + 1, Len(s))

\* The first loop of ensure_routes: [pool |-> routes_to_match left over,
\* create |-> route_specs_to_create].
RECURSIVE MatchSpecs(_, _, _)
MatchSpecs(route_specs, routes_to_match, route_specs_to_create) ==
    IF route_specs = <<>>
    THEN [pool |-> routes_to_match, create |-> route_specs_to_create]
    ELSE LET i == index_of_matching_route(Head(route_specs), routes_to_match)
         IN  IF i = 0
             THEN MatchSpecs(Tail(route_specs), routes_to_match,
                             Append(route_specs_to_create, Head(route_specs)))
             ELSE MatchSpecs(Tail(route_specs), RemoveAt(routes_to_match, i),
                             route_specs_to_create)

\* Deletable without the test for the "local" gateway.
DeletableNoLocalCheck(r, vgw_ids) == r.gateway_id \notin Range(vgw_ids)

\* r.gateway_id != 'local' and r.gateway_id not in propagating_vgw_ids
Deletable(r, vgw_ids) ==
    r.gateway_id # "local" /\ r.gateway_id \notin Range(vgw_ids)

RECURSIVE DoAll(_, _, _)
DoAll(f, cs, dup) == IF cs = <<>> THEN f ELSE DoAll(Do(f, Head(cs), dup), Tail(cs), dup)

ensure_routes(f, table, route_specs, propagating_vgw_ids, check_mode, dup) ==
    LET m == MatchSpecs(route_specs, table.routes, <<>>)
        vgw_ids == IF IsNone(propagating_vgw_ids) THEN <<>> ELSE Val(propagating_vgw_ids)
        routes_to_delete == SelectSeq(m.pool, LAMBDA r : Deletable(r, vgw_ids))
        creates == [i \in 1..Len(m.create) |->
                      [Call("create_route", check_mode) EXCEPT
                          !.rtb = table.id, !.route = RouteOfSpec(m.create[i])]]
        deletes == [i \in 1..Len(routes_to_delete) |->
                      [Call("delete_route", check_mode) EXCEPT
                          !.rtb = table.id, !.route = routes_to_delete[i]]]
    IN  \* 'x not in None' raises a TypeError; 'and' reaches it for a route
        \* whose gateway is not "local"
        IF IsNone(propagating_vgw_ids)
           /\ \E i \in 1..Len(m.pool) : m.pool[i].gateway_id # "local"
        THEN [f EXCEPT !.exc = "TypeError"]
        ELSE [DoAll(f, creates \o deletes, dup) EXCEPT
                 !.changed = routes_to_delete # <<>> \/ m.create # <<>>]

(***************************************************************************)
(* ensure_subnet_association, ensure_subnet_associations                   *)
(***************************************************************************)
\* The associations of subnet_id the two nested loops visit, in their order:
\* get_all_route_tables(filters={'association.subnet_id': subnet_id}) and, of
\* each table listed, the associations whose subnet_id is subnet_id.
AssociationsWith(world, subnet_id) ==
    Flatten([i \in 1..Len(world.tables) |->
                SelectSeq(AssociationsOf(world, world.tables[i]),
                          LAMBDA a : a.subnet_id = subnet_id)])

\* The loops over the listed associations; at the end, the associate call.
\* done |-> TRUE: the function returned inside the loops.
\* WalkAssociations without the disassociate call for an association with
\* another route table.
RECURSIVE WalkAssociationsNoSever(_, _, _, _)
WalkAssociationsNoSever(f, as, route_table_id, check_mode) ==
    IF f.exc # None THEN [f |-> f, done |-> TRUE]
    ELSE IF as = <<>> THEN [f |-> f, done |-> FALSE]
    ELSE LET a == Head(as)
         IN  IF a.route_table_id = route_table_id
             THEN [f |-> [f EXCEPT !.changed = FALSE, !.ret = a.id], done |-> TRUE]
             ELSE IF check_mode
             THEN [f |-> [f EXCEPT !.changed = TRUE, !.ret = 0], done |-> TRUE]
             ELSE WalkAssociationsNoSever(f, Tail(as), route_table_id, check_mode)

RECURSIVE WalkAssociations(_, _, _, _)
WalkAssociations(f, as, route_table_id, check_mode) ==
    IF f.exc # None THEN [f |-> f, done |-> TRUE]
    ELSE IF as = <<>> THEN [f |-> f, done |-> FALSE]
    ELSE LET a == Head(as)
         IN  IF a.route_table_id = route_table_id
             THEN [f |-> [f EXCEPT !.changed = FALSE, !.ret = a.id], done |-> TRUE]
             ELSE IF check_mode
             THEN [f |-> [f EXCEPT !.changed = TRUE, !.ret = 0], done |-> TRUE]
             ELSE WalkAssociations(
                      Do(f, [Call("disassociate_route_table", FALSE) EXCEPT
                                !.assoc = a.id, !.rtb = a.route_table_id,
                                !.subnet = a.subnet_id], "error"),
                      Tail(as), route_table_id, check_mode)

\* ensure_subnet_association that binds the subnet to the target before it
\* severs the associations with other route tables.
ensure_subnet_association_bind_first(f, route_table_id, subnet_id, check_mode) ==
    LET others == SelectSeq(AssociationsWith(f.aws, subnet_id),
                            LAMBDA a : a.route_table_id # route_table_id)
        bound == Do(f, [Call("associate_route_table", FALSE) EXCEPT
                           !.rtb = route_table_id, !.subnet = subnet_id], "error")
        severs == [i \in 1..Len(others) |->
                     [Call("disassociate_route_table", FALSE) EXCEPT
                         !.assoc = others[i].id, !.rtb = others[i].route_table_id,
                         !.subnet = others[i].subnet_id]]
    IN  [DoAll(bound, severs, "error") EXCEPT
            !.changed = TRUE, !.ret = f.aws.next_assoc]

ensure_subnet_association(f, route_table_id, subnet_id, check_mode) ==
    LET f0 == Read(f, "get_all_route_tables")
        w == WalkAssociations(f0, AssociationsWith(f.aws, subnet_id),
                              route_table_id, check_mode)
    IN  IF w.done THEN w.f
        \* associate_route_table is called without dry_run
        ELSE [Do(w.f, [Call("associate_route_table", FALSE) EXCEPT
                          !.rtb = route_table_id, !.subnet = subnet_id], "error")
                 EXCEPT !.changed = TRUE, !.ret = w.f.aws.next_assoc]

\* The loop over the subnets: [f, new |-> new_association_ids, returned |->
\* whether the function returned {'changed': True} from inside the loop].
RECURSIVE AssociateEach(_, _, _, _, _)
AssociateEach(f, table, subnets, new_association_ids, check_mode) ==
    IF f.exc # None \/ subnets = <<>>
    THEN [f |-> f, new |-> new_association_ids, returned |-> FALSE]
    ELSE LET r == ensure_subnet_association([f EXCEPT !.ret = 0], table.id,
                                            Head(subnets).id, check_mode)
             ch == f.changed \/ r.changed
         IN  IF r.exc # None
             THEN [f |-> r, new |-> new_association_ids, returned |-> FALSE]
             ELSE IF ch /\ check_mode
             THEN [f |-> [r EXCEPT !.changed = TRUE], new |-> new_association_ids,
                   returned |-> TRUE]
             ELSE AssociateEach([r EXCEPT !.changed = ch], table, Tail(subnets),
                                Append(new_association_ids, r.ret), check_mode)

\* ensure_subnet_associations without the loop over to_delete.
ensure_subnet_associations_keep(f, table, subnets, check_mode) ==
    AssociateEach([f EXCEPT !.changed = FALSE], table, subnets, <<>>, check_mode).f

ensure_subnet_associations(f, table, subnets, check_mode) ==
    LET current_association_ids ==
            [i \in 1..Len(table.associations) |-> table.associations[i].id]
        e == AssociateEach([f EXCEPT !.changed = FALSE], table, subnets, <<>>,
                           check_mode)
        to_delete == SelectSeq(current_association_ids,
                               LAMBDA a_id : a_id \notin Range(e.new))
        severs == [i \in 1..Len(to_delete) |->
                     [Call("disassociate_route_table", check_mode) EXCEPT
                         !.assoc = to_delete[i], !.rtb = table.id]]
    IN  IF e.f.exc # None \/ e.returned THEN e.f
        ELSE [DoAll(e.f, severs, "error") EXCEPT
                 !.changed = e.f.changed \/ to_delete # <<>>]

(***************************************************************************)
(* ensure_propagation                                                      *)
(***************************************************************************)
RECURSIVE ensure_propagation(_, _, _, _)
ensure_propagation(f, table, propagating_vgw_ids, check_mode) ==
    IF f.exc # None \/ propagating_vgw_ids = <<>> THEN f
    ELSE LET vgw_id == Head(propagating_vgw_ids)
         IN  IF \E i \in 1..Len(table.routes) : table.routes[i].gateway_id = vgw_id
             THEN [f EXCEPT !.changed = FALSE]
             ELSE ensure_propagation(
                      [Do(f, [Call("enable_vgw_route_propagation", check_mode) EXCEPT
                                 !.rtb = table.id, !.vgw = vgw_id], "error")
                          EXCEPT !.changed = TRUE],
                      table, Tail(propagating_vgw_ids), check_mode)

(***************************************************************************)
(* main(): the invocation, one action per step                             *)
(***************************************************************************)
NoResult == [kind |-> None, changed |-> FALSE, exc |-> None, msg |-> None,
             route_table_id |-> 0]
NoFound == [exc |-> None, msg |-> None, subnets |-> <<>>]

\* The exceptions main() catches: AnsibleRouteTableException and its subclasses.
ModuleExceptions == {"AnsibleRouteTableException", "AnsibleIgwSearchException",
                     "AnsibleTagCreationException", "AnsibleSubnetSearchException"}

\* module.exit_json(**result)
ExitJson(ch, rtid) ==
    /\ result' = [NoResult EXCEPT !.kind = "exit_json", !.changed = ch,
                                  !.route_table_id = rtid]
    /\ pc' = "done"

\* An exception leaves ensure_route_table_present/absent: main() turns the
\* module's own exceptions into fail_json(msg=str(e)); any other exception
\* ends the process with a traceback.
Raise(exc, msg) ==
    /\ result' = [NoResult EXCEPT
                     !.kind = IF exc \in ModuleExceptions THEN "fail_json"
                              ELSE "traceback",
                     !.exc = exc, !.msg = msg]
    /\ pc' = "done"

\* An exception raised in main() outside its try block.
RaiseInMain(exc) ==
    /\ result' = [NoResult EXCEPT !.kind = "traceback", !.exc = exc]
    /\ pc' = "done"

\* except EC2ResponseError as e: raise AnsibleRouteTableException(msg)
Wrapped(exc) == IF exc = "EC2ResponseError" THEN "AnsibleRouteTableException" ELSE exc

\* rename_key(route_spec, 'dest', 'destination_cidr_block')
rename_key(d, old_key, new_key) ==
    [k \in (DOMAIN d \ {old_key}) \cup {new_key} |->
        IF k = new_key THEN d[old_key] ELSE d[k]]

NamesIgw(route_spec) ==
    "gateway_id" \in DOMAIN route_spec /\ route_spec["gateway_id"] = "igw"

\* The body of the loop over routes in main(), given what find_igw returned.
ResolveSpec(route_spec, igw) ==
    LET renamed == rename_key(route_spec, "dest", "destination_cidr_block")
    IN  IF NamesIgw(route_spec) THEN [renamed EXCEPT !["gateway_id"] = igw]
        ELSE renamed

\* Lines 514-529 of main(): the parameters and the loop over routes.
Main ==
    /\ pc = "main"
    /\ IF IsNone(params.routes)
       THEN \* for route_spec in None: TypeError
            /\ RaiseInMain("TypeError")
            /\ UNCHANGED routes
       ELSE LET specs == Val(params.routes)
                igw == find_igw(igws)
            IN  IF (\E i \in 1..Len(specs) : NamesIgw(specs[i])) /\ igw.exc # None
                THEN /\ RaiseInMain(igw.exc)
                     /\ UNCHANGED routes
                ELSE /\ routes' = [i \in 1..Len(specs) |-> ResolveSpec(specs[i], igw.value)]
                     /\ pc' = "locate"
                     /\ UNCHANGED result
    /\ UNCHANGED <<aws, subnetsDb, igws, params, route_table, changed, tags_valid,
                   found, calls, fault, run, first, aws0>>
    /\ UNCHANGED rax_vars

\* Lines 396-405 and 414-426: the table is looked up by ID or by tags.
Locate ==
    /\ pc = "locate"
    /\ LET by_id == params.route_table_id # 0
           by_tags == ~by_id /\ ~IsNone(params.resource_tags)
                             /\ DOMAIN Val(params.resource_tags) # {}
           table == IF by_id THEN get_route_table_by_id(aws, params.route_table_id)
                    ELSE IF by_tags
                    THEN get_route_table_by_tags(aws, Val(params.resource_tags))
                    ELSE NoTable
       IN  IF ~by_id /\ ~by_tags
           THEN /\ Raise("AnsibleRouteTableException",
                         "must provide route_table_id or resource_tags")
                /\ UNCHANGED <<route_table, tags_valid>>
           ELSE IF fault = "get_all_route_tables" \/ (by_tags /\ fault = "get_all_tags")
           THEN /\ Raise("EC2ResponseError", "lookup")
                /\ UNCHANGED <<route_table, tags_valid>>
           ELSE /\ route_table' = table
                /\ tags_valid' = (params.state = "present" /\ by_tags /\ table # NoTable)
                /\ IF params.state = "absent"
                   THEN IF table = NoTable THEN ExitJson(FALSE, 0)
                        ELSE pc' = "delete" /\ UNCHANGED result
                   ELSE IF params.check_mode /\ table = NoTable
                   THEN ExitJson(TRUE, 0)
                   ELSE pc' = "create" /\ UNCHANGED result
    /\ UNCHANGED <<aws, subnetsDb, igws, params, changed, routes, found, calls,
                   fault, run, first, aws0>>
    /\ UNCHANGED rax_vars

\* Lines 407-408 of ensure_route_table_absent.
Delete ==
    /\ pc = "delete"
    /\ LET g == Do(Frame(aws, calls),
                   [Call("delete_route_table", params.check_mode) EXCEPT
                       !.rtb = route_table.id], "error")
       IN  /\ aws' = g.aws
           /\ calls' = g.calls
           /\ IF g.exc # None THEN Raise(g.exc, "delete_route_table")
              ELSE ExitJson(TRUE, 0)
    /\ UNCHANGED <<subnetsDb, igws, params, route_table, changed, tags_valid,
                   routes, found, fault, run, first, aws0>>
    /\ UNCHANGED rax_vars

\* Lines 428-435: a table that was not found is created.
Create ==
    /\ pc = "create"
    /\ IF route_table # NoTable
       THEN /\ pc' = "propagation"
            /\ UNCHANGED <<aws, calls, route_table, result>>
       ELSE LET g == Do(Frame(aws, calls), Call("create_route_table", FALSE), "error")
            IN  /\ aws' = g.aws
                /\ calls' = g.calls
                /\ IF g.exc # None
                   THEN /\ Raise(Wrapped(g.exc), "Unable to create route table")
                        /\ UNCHANGED route_table
                   ELSE /\ route_table' = TableObject(g.aws, aws.next_rtb)
                        /\ pc' = "propagation"
                        /\ UNCHANGED result
    /\ UNCHANGED <<subnetsDb, igws, params, changed, tags_valid, routes, found,
                   fault, run, first, aws0>>
    /\ UNCHANGED rax_vars

\* StepEnds that restores the provider's state when the step raised.
StepEndsUndone(g, wraps, msg, next) ==
    /\ aws' = IF g.exc # None THEN aws0 ELSE g.aws
    /\ calls' = g.calls
    /\ IF g.exc # None
       THEN /\ Raise(IF wraps THEN Wrapped(g.exc) ELSE g.exc, msg)
            /\ UNCHANGED changed
       ELSE /\ changed' = (changed \/ g.changed)
            /\ pc' = next
            /\ UNCHANGED result

\* The outcome of a step of ensure_route_table_present that ran in frame g:
\* the exception leaves the function (wrapped where the step has an except
\* clause), or changed = changed or result['changed'] and the next step.
StepEnds(g, wraps, msg, next) ==
    /\ aws' = g.aws
    /\ calls' = g.calls
    /\ IF g.exc # None
       THEN /\ Raise(IF wraps THEN Wrapped(g.exc) ELSE g.exc, msg)
            /\ UNCHANGED changed
       ELSE /\ changed' = (changed \/ g.changed)
            /\ pc' = next
            /\ UNCHANGED result

StepSkipped(next) ==
    /\ pc' = next
    /\ UNCHANGED <<aws, calls, changed, result>>

\* Lines 437-441.
Propagation ==
    /\ pc = "propagation"
    /\ IF IsNone(params.propagating_vgw_ids) THEN StepSkipped("tags")
       ELSE StepEnds(ensure_propagation(Frame(aws, calls), route_table,
                                        Val(params.propagating_vgw_ids),
                                        params.check_mode),
                     FALSE, "enable_vgw_route_propagation", "tags")
    /\ UNCHANGED <<subnetsDb, igws, params, route_table, tags_valid, routes, found,
                   fault, run, first, aws0>>
    /\ UNCHANGED rax_vars

\* Lines 443-446.
Tags ==
    /\ pc = "tags"
    /\ IF tags_valid \/ IsNone(params.resource_tags) THEN StepSkipped("routes")
       ELSE StepEnds(ensure_tags(Frame(aws, calls), route_table.id,
                                 Val(params.resource_tags), TRUE, params.check_mode),
                     FALSE, "Unable to update tags", "routes")
    /\ UNCHANGED <<subnetsDb, igws, params, route_table, tags_valid, routes, found,
                   fault, run, first, aws0>>
    /\ UNCHANGED rax_vars

\* How the provider keeps one route per destination when create_route names a
\* destination the table already routes: it refuses the call, or replaces the
\* route.  The module's source does not say which; both are allowed.
DupOutcomes == {"error", "replace"}

\* Lines 448-457 (routes is a list here: main() has iterated over it).
Routes ==
    /\ pc = "routes"
    /\ \E dup \in DupOutcomes :
           StepEnds(ensure_routes(Frame(aws, calls), route_table, routes,
                                  params.propagating_vgw_ids, params.check_mode, dup),
                    TRUE, "Unable to ensure routes", "subnets")
    /\ UNCHANGED <<subnetsDb, igws, params, route_table, tags_valid, routes, found,
                   fault, run, first, aws0>>
    /\ UNCHANGED rax_vars

\* Truth of a list parameter: neither None nor empty.
Truthy(o) == ~IsNone(o) /\ Val(o) # <<>>

\* Lines 459-467.
Subnets ==
    /\ pc = "subnets"
    /\ IF ~Truthy(params.subnets)
       THEN /\ pc' = "return"
            /\ UNCHANGED <<found, result>>
       ELSE IF fault = "get_all_subnets"
       THEN /\ Raise(Wrapped("EC2ResponseError"), "Unable to find subnets")
            /\ UNCHANGED found
       ELSE LET r == find_subnets(subnetsDb, params.subnets)
            IN  /\ found' = r
                /\ IF r.exc # None THEN Raise(r.exc, r.msg)
                   ELSE pc' = "associations" /\ UNCHANGED result
    /\ UNCHANGED <<aws, subnetsDb, igws, params, route_table, changed, tags_valid,
                   routes, calls, fault, run, first, aws0>>
    /\ UNCHANGED rax_vars

\* Lines 469-477.
Associations ==
    /\ pc = "associations"
    /\ StepEnds(ensure_subnet_associations(Frame(aws, calls), route_table,
                                           found.subnets, params.check_mode),
                TRUE, "Unable to associate subnets", "return")
    /\ UNCHANGED <<subnetsDb, igws, params, route_table, tags_valid, routes, found,
                   fault, run, first, aws0>>
    /\ UNCHANGED rax_vars

\* Lines 479-482 and 545.
Return ==
    /\ pc = "return"
    /\ ExitJson(changed, route_table.id)
    /\ UNCHANGED <<aws, subnetsDb, igws, params, route_table, changed, tags_valid,
                   routes, found, calls, fault, run, first, aws0>>
    /\ UNCHANGED rax_vars

\* The orchestration engine invokes the module again with the same parameters.
MaxRuns == 2

Rerun ==
    /\ pc = "done"
    /\ run < MaxRuns
    /\ run' = run + 1
    /\ first' = IF run = 1 THEN [result |-> result, calls |-> calls, aws0 |-> aws0]
               ELSE first
    /\ aws0' = aws
    /\ pc' = "main"
    /\ route_table' = NoTable
    /\ changed' = FALSE
    /\ tags_valid' = FALSE
    /\ routes' = <<>>
    /\ found' = NoFound
    /\ result' = NoResult
    /\ calls' = <<>>
    /\ UNCHANGED <<aws, subnetsDb, igws, params, fault>>
    /\ UNCHANGED rax_vars

\* One invocation, from main() to its end.
NextOnce ==
    \/ Main
    \/ Locate
    \/ Delete
    \/ Create
    \/ Propagation
    \/ Tags
    \/ Routes
    \/ Subnets
    \/ Associations
    \/ Return

Next ==
    \/ Main
    \/ Locate
    \/ Delete
    \/ Create
    \/ Propagation
    \/ Tags
    \/ Routes
    \/ Subnets
    \/ Associations
    \/ Return
    \/ Rerun

(***************************************************************************)
(* rax_mon_alarm.py: alarm().  The provider holds alarms, each attached to *)
(* an entity; the module reconciles the alarm with a given label on a      *)
(* given entity.                                                           *)
(***************************************************************************)
\* An alarm as the client returns it; NoAlarm is Python's None.
NoAlarm == [id |-> 0, entity_id |-> None, label |-> None, check_id |-> None,
            notification_plan_id |-> None, criteria |-> None, disabled |-> FALSE,
            metadata |-> None]

\* Truth of a string or dict parameter: None, '' and {} are false.
RaxTruthy(v) == v \notin {None, "", "{}"}

\* cm.list_alarms(entity_id)
list_alarms(monitoring, entity_id) ==
    SelectSeq(monitoring.alarms, LAMBDA a : a.entity_id = entity_id)

\* cm.update_alarm(entity, alarm, criteria, disabled, label, metadata): the
\* client sends disabled and label, and criteria and metadata when they are set.
update_alarm(monitoring, a, criteria, disabled, label, metadata) ==
    [monitoring EXCEPT !.alarms =
        [i \in 1..Len(@) |->
            IF @[i].id = a.id
            THEN [@[i] EXCEPT !.criteria = IF RaxTruthy(criteria) THEN criteria ELSE @,
                              !.disabled = disabled,
                              !.label = label,
                              !.metadata = IF RaxTruthy(metadata) THEN metadata ELSE @]
            ELSE @[i]]]

\* alarm.delete() that leaves the alarm in place.
delete_alarm_kept(monitoring, a) == monitoring

\* alarm.delete()
delete_alarm(monitoring, a) ==
    [monitoring EXCEPT !.alarms = SelectSeq(@, LAMBDA x : x.id # a.id)]

\* The alarm cm.create_alarm(...) returns.
NewAlarm(monitoring, p) ==
    [id |-> monitoring.next_id, entity_id |-> p.entity_id, label |-> p.label,
     check_id |-> p.check_id, notification_plan_id |-> p.notification_plan_id,
     criteria |-> p.criteria, disabled |-> p.disabled, metadata |-> p.metadata]

create_alarm(monitoring, p) ==
    [alarms |-> Append(monitoring.alarms, NewAlarm(monitoring, p)),
     next_id |-> monitoring.next_id + 1]

RaxCall(op, id) == [op |-> op, id |-> id]

NoRaxResult == [kind |-> None, changed |-> FALSE, alarm |-> NoAlarm, msg |-> None]
NoShould == [create |-> FALSE, update |-> FALSE, delete |-> FALSE]

\* module.fail_json(msg=...): the process exits.
RaxFailJson(msg) ==
    /\ rax_result' = [NoRaxResult EXCEPT !.kind = "fail_json", !.msg = msg]
    /\ rax_pc' = "done"

\* An exception of the client: alarm() has no except clause.
RaxRaise(op) ==
    /\ rax_result' = [NoRaxResult EXCEPT !.kind = "traceback", !.msg = op]
    /\ rax_pc' = "done"

\* The lengths of the strings the model draws for label and criteria.
LongString == "a string of 16385 characters"
StrLen(v) == IF v = "" THEN 0 ELSE IF v = LongString THEN 16385 ELSE 8

\* Lines 108-123: the required attributes, and the lengths of label and
\* criteria.  'criteria and len(criteria) < 1 or len(criteria) > 16384' takes
\* len(criteria) when criteria is None: a TypeError.
AlarmValidate ==
    /\ rax_pc = "alarm"
    /\ IF \E k \in {"label", "entity_id", "check_id", "notification_plan_id"} :
              ~RaxTruthy(rax_params[k])
       THEN RaxFailJson("is required for rax_mon_alarm")
       ELSE IF StrLen(rax_params.label) < 1 \/ StrLen(rax_params.label) > 255
       THEN RaxFailJson("label must be between 1 and 255 characters long")
       ELSE IF rax_params.criteria = None
       THEN RaxRaise("TypeError")
       ELSE IF StrLen(rax_params.criteria) > 16384
       THEN RaxFailJson("criteria must be between 1 and 16384 characters long")
       ELSE rax_pc' = "list" /\ UNCHANGED rax_result
    /\ UNCHANGED <<cm, rax_params, existing, alarm, should, rax_changed, rax_calls,
                   rax_fault, rax_run, rax_first, cm0>>
    /\ UNCHANGED ec2_vars

\* Lines 127-141: the client, and the alarms of the entity with the label.
AlarmList ==
    /\ rax_pc = "list"
    /\ IF rax_fault = "cloud_monitoring"
       THEN /\ RaxFailJson("Failed to instantiate client.")
            /\ UNCHANGED <<existing, alarm>>
       ELSE IF rax_fault = "list_alarms"
       THEN /\ RaxRaise("list_alarms")
            /\ UNCHANGED <<existing, alarm>>
       ELSE LET found_alarms == SelectSeq(list_alarms(cm, rax_params.entity_id),
                                          LAMBDA a : a.label = rax_params.label)
            IN  /\ existing' = found_alarms
                /\ alarm' = IF found_alarms # <<>> THEN found_alarms[1] ELSE NoAlarm
                /\ IF rax_params.state \in {"present", "absent"}
                   THEN rax_pc' = rax_params.state /\ UNCHANGED rax_result
                   ELSE RaxFailJson("state must be either present or absent.")
    /\ UNCHANGED <<cm, rax_params, should, rax_changed, rax_calls, rax_fault,
                   rax_run, rax_first, cm0>>
    /\ UNCHANGED ec2_vars

\* Lines 141-156 and 167-168: the decisions of state == 'present'.
AlarmPresent ==
    /\ rax_pc = "present"
    /\ IF Len(existing) > 1
       THEN /\ RaxFailJson("existing alarms have the label")
            /\ UNCHANGED should
       ELSE IF alarm # NoAlarm
       THEN LET replace == \/ rax_params.check_id # alarm.check_id
                           \/ rax_params.notification_plan_id
                                  # alarm.notification_plan_id
                update ==
                    \/ rax_params.disabled /\ rax_params.disabled # alarm.disabled
                    \/ RaxTruthy(rax_params.metadata)
                           /\ rax_params.metadata # alarm.metadata
                    \/ RaxTruthy(rax_params.criteria)
                           /\ rax_params.criteria # alarm.criteria
            IN  /\ should' = [create |-> replace, update |-> update,
                              delete |-> replace]
                /\ rax_pc' = "update"
                /\ UNCHANGED rax_result
       ELSE /\ should' = [NoShould EXCEPT !.create = TRUE]
            /\ rax_pc' = "create"
            /\ UNCHANGED rax_result
    /\ UNCHANGED <<cm, rax_params, existing, alarm, rax_changed, rax_calls,
                   rax_fault, rax_run, rax_first, cm0>>
    /\ UNCHANGED ec2_vars

\* Lines 158-162.
AlarmUpdate ==
    /\ rax_pc = "update"
    /\ IF should.update /\ ~should.delete
       THEN IF rax_fault = "update_alarm"
            THEN /\ RaxRaise("update_alarm")
                 /\ UNCHANGED <<cm, rax_calls, rax_changed>>
            ELSE /\ cm' = update_alarm(cm, alarm, rax_params.criteria,
                                       rax_params.disabled, rax_params.label,
                                       rax_params.metadata)
                 /\ rax_calls' = Append(rax_calls, RaxCall("update_alarm", alarm.id))
                 /\ rax_changed' = TRUE
                 /\ rax_pc' = "delete"
                 /\ UNCHANGED rax_result
       ELSE /\ rax_pc' = "delete"
            /\ UNCHANGED <<cm, rax_calls, rax_changed, rax_result>>
    /\ UNCHANGED <<rax_params, existing, alarm, should, rax_fault, rax_run,
                   rax_first, cm0>>
    /\ UNCHANGED ec2_vars

\* Lines 164-166.
AlarmDelete ==
    /\ rax_pc = "delete"
    /\ IF should.delete
       THEN IF rax_fault = "delete"
            THEN /\ RaxRaise("delete")
                 /\ UNCHANGED <<cm, rax_calls, rax_changed>>
            ELSE /\ cm' = delete_alarm(cm, alarm)
                 /\ rax_calls' = Append(rax_calls, RaxCall("delete", alarm.id))
                 /\ rax_changed' = TRUE
                 /\ rax_pc' = "create"
                 /\ UNCHANGED rax_result
       ELSE /\ rax_pc' = "create"
            /\ UNCHANGED <<cm, rax_calls, rax_changed, rax_result>>
    /\ UNCHANGED <<rax_params, existing, alarm, should, rax_fault, rax_run,
                   rax_first, cm0>>
    /\ UNCHANGED ec2_vars

\* Lines 170-175.
AlarmCreate ==
    /\ rax_pc = "create"
    /\ IF should.create
       THEN IF rax_fault = "create_alarm"
            THEN /\ RaxRaise("create_alarm")
                 /\ UNCHANGED <<cm, alarm, rax_calls, rax_changed>>
            ELSE /\ cm' = create_alarm(cm, rax_params)
                 /\ alarm' = NewAlarm(cm, rax_params)
                 /\ rax_calls' = Append(rax_calls, RaxCall("create_alarm", cm.next_id))
                 /\ rax_changed' = TRUE
                 /\ rax_pc' = "exit"
                 /\ UNCHANGED rax_result
       ELSE /\ rax_pc' = "exit"
            /\ UNCHANGED <<cm, alarm, rax_calls, rax_changed, rax_result>>
    /\ UNCHANGED <<rax_params, existing, should, rax_fault, rax_run, rax_first, cm0>>
    /\ UNCHANGED ec2_vars

\* The loop of state == 'absent' over s: [cm, calls, raised].
RECURSIVE DeleteEach(_, _, _)
DeleteEach(monitoring, cs, s) ==
    IF s = <<>> THEN [cm |-> monitoring, calls |-> cs, raised |-> FALSE]
    ELSE IF rax_fault = "delete" THEN [cm |-> monitoring, calls |-> cs, raised |-> TRUE]
    ELSE DeleteEach(delete_alarm(monitoring, Head(s)),
                    Append(cs, RaxCall("delete", Head(s).id)), Tail(s))

\* Lines 176-179.
AlarmAbsent ==
    /\ rax_pc = "absent"
    /\ LET d == DeleteEach(cm, rax_calls, existing)
       IN  /\ cm' = d.cm
           /\ rax_calls' = d.calls
           /\ IF d.raised
              THEN RaxRaise("delete") /\ UNCHANGED rax_changed
              ELSE /\ rax_changed' = (existing # <<>>)
                   /\ rax_pc' = "exit"
                   /\ UNCHANGED rax_result
    /\ UNCHANGED <<rax_params, existing, alarm, should, rax_fault, rax_run,
                   rax_first, cm0>>
    /\ UNCHANGED ec2_vars

\* Lines 183-195: exit_json with the local alarm, which no call refreshed.
AlarmExit ==
    /\ rax_pc = "exit"
    /\ rax_result' = [NoRaxResult EXCEPT !.kind = "exit_json",
                                         !.changed = rax_changed, !.alarm = alarm]
    /\ rax_pc' = "done"
    /\ UNCHANGED <<cm, rax_params, existing, alarm, should, rax_changed, rax_calls,
                   rax_fault, rax_run, rax_first, cm0>>
    /\ UNCHANGED ec2_vars

\* The task runs again with the same parameters.
AlarmRerun ==
    /\ rax_pc = "done"
    /\ rax_run < MaxRuns
    /\ rax_run' = rax_run + 1
    /\ rax_first' = IF rax_run = 1
                    THEN [result |-> rax_result, calls |-> rax_calls, cm0 |-> cm0]
                    ELSE rax_first
    /\ cm0' = cm
    /\ rax_pc' = "alarm"
    /\ existing' = <<>>
    /\ alarm' = NoAlarm
    /\ should' = NoShould
    /\ rax_changed' = FALSE
    /\ rax_result' = NoRaxResult
    /\ rax_calls' = <<>>
    /\ UNCHANGED <<cm, rax_params, rax_fault>>
    /\ UNCHANGED ec2_vars

NextAlarm ==
    \/ AlarmValidate
    \/ AlarmList
    \/ AlarmPresent
    \/ AlarmUpdate
    \/ AlarmDelete
    \/ AlarmCreate
    \/ AlarmAbsent
    \/ AlarmExit
    \/ AlarmRerun

\* The state of an invocation of rax_mon_alarm before alarm() is entered.
RaxLocals ==
    /\ existing = <<>>
    /\ alarm = NoAlarm
    /\ should = NoShould
    /\ rax_changed = FALSE
    /\ rax_result = NoRaxResult
    /\ rax_calls = <<>>
    /\ rax_run = 1
    /\ rax_first = [result |-> NoRaxResult, calls |-> <<>>, cm0 |-> cm]
    /\ cm0 = cm

NoParams == [state |-> None]

\* rax_mon_alarm is not invoked.
RaxIdle ==
    /\ cm = [alarms |-> <<>>, next_id |-> 1]
    /\ rax_params = NoParams
    /\ rax_pc = "idle"
    /\ rax_fault = None
    /\ RaxLocals

(***************************************************************************)
(* Initial states: a VPC as the provider may hold it, and the parameters   *)
(* of one invocation.  Route tables 1 and 2 may exist; a table the module  *)
(* creates gets the next ID.  Each subnet is associated with at most one   *)
(* route table, as the provider guarantees.                                *)
(***************************************************************************)
Subnet(id, cidr, name) == [id |-> id, cidr_block |-> cidr, name |-> name]

\* The subnets of the VPC in the runs of the whole module.
VpcSubnets == <<Subnet("subnet-1", "10.0.1.0/24", "web"),
                Subnet("subnet-2", "10.0.2.0/24", "db"),
                Subnet("subnet-3", "10.0.3.0/24", "db")>>

\* The associations of an owner function: subnet |-> route table ID, 0 for a
\* subnet with no association.  Association IDs are numbered in subnet order.
RECURSIVE AssocsOfOwners(_, _, _)
AssocsOfOwners(owner, subnets, n) ==
    IF subnets = <<>> THEN <<>>
    ELSE IF owner[Head(subnets)] = 0 THEN AssocsOfOwners(owner, Tail(subnets), n)
    ELSE <<[id |-> n, route_table_id |-> owner[Head(subnets)],
            subnet_id |-> Head(subnets)]>>
         \o AssocsOfOwners(owner, Tail(subnets), n + 1)

World(tables, tagsOf, routesOf, owner, owned) ==
    [tables |-> tables,
     tags |-> tagsOf,
     routes |-> routesOf,
     propagation |-> [t \in Range(tables) |-> {}],
     assocs |-> AssocsOfOwners(owner, owned, 1),
     next_rtb |-> 3,
     next_assoc |-> Len(owned) + 1]

\* The worlds over the given tables, tag dicts, route lists of table 1 and
\* subnets that may be associated.  Table 2 holds only its local route.
Worlds(tableLists, tagDicts, routeLists, owned) ==
    UNION {
      {World(tables, tagsOf, [t \in Range(tables) |->
                                 IF t = 1 THEN rl ELSE <<LocalRoute>>], owner, owned) :
          tagsOf \in [Range(tables) -> tagDicts],
          rl \in routeLists,
          owner \in [Range(owned) -> {0} \cup Range(tables)]} :
      tables \in tableLists}

\* The parameter records over the given sets of values.
Params(state, route_table_id, resource_tags, routeLists, subnetLists, vgwLists,
       check_mode) ==
    [state : state, route_table_id : route_table_id, resource_tags : resource_tags,
     routes : routeLists, subnets : subnetLists, propagating_vgw_ids : vgwLists,
     check_mode : check_mode]

\* Some(s) for every s of S.
SomeOf(S) == {Some(s) : s \in S}

InitFrom(D) ==
    /\ aws \in D.worlds
    /\ aws0 = aws
    /\ subnetsDb \in D.dbs
    /\ igws \in D.igws
    /\ params \in D.params
    /\ fault \in D.faults
    /\ pc = D.pc
    /\ route_table = NoTable
    /\ changed = FALSE
    /\ tags_valid = FALSE
    /\ routes = <<>>
    /\ found = NoFound
    /\ result = NoResult
    /\ calls = <<>>
    /\ run = 1
    /\ first = [result |-> NoResult, calls |-> <<>>, aws0 |-> aws]
    /\ RaxIdle

TagsPublic == [Name |-> "Public"]
TagsPrivate == [Name |-> "Private"]
TagsPublicDev == [Name |-> "Public", Env |-> "dev"]
TagsEnv == [Env |-> "dev"]

\* The invocations of the whole module: the selection of the table by ID or
\* by tags, its tags, one subnet.
DomMain ==
    [worlds |-> Worlds({<<>>, <<1>>, <<1, 2>>}, {NoTags, TagsPublic, TagsPublicDev},
                       {<<LocalRoute>>}, <<"subnet-1">>),
     dbs |-> {VpcSubnets},
     igws |-> {<<"igw-1">>},
     params |-> Params({"present", "absent"}, {0, 1, 2},
                       {Nothing, Some(NoTags), Some(TagsPublic)},
                       {Nothing, Some(<<>>)},
                       {Nothing, Some(<<"subnet-1">>)},
                       {Some(<<>>)}, BOOLEAN),
     faults |-> {None},
     pc |-> "main"]

Init == InitFrom(DomMain)

Spec == Init /\ [][Next]_vars

(***************************************************************************)
(* Claims about the whole invocation                                       *)
(***************************************************************************)
\* The run has ended and main() reached ensure_route_table_present/absent.
Ended == pc = "done" /\ ~IsNone(params.routes)

\* The tables of world whose tags contain every pair of the selector.
TablesTagged(world, tags) ==
    {t \in Range(world.tables) :
        \A k \in DOMAIN tags : k \in DOMAIN world.tags[t] /\ world.tags[t][k] = tags[k]}

SelectsByTags ==
    /\ params.route_table_id = 0
    /\ ~IsNone(params.resource_tags)
    /\ DOMAIN Val(params.resource_tags) # {}

\* C1: idempotence of ensure-present.  Of two successive non-dry-run runs with
\* the same parameters, the first returns changed=true whenever it had something
\* to change (it issued a mutating call), and the second returns changed=false
\* and issues no mutating call.
C1_Idempotent ==
    (/\ run = 2
     /\ Ended
     /\ params.state = "present"
     /\ ~params.check_mode
     /\ first.result.kind = "exit_json"
     /\ result.kind = "exit_json")
    => /\ first.calls # <<>> => first.result.changed
       /\ ~result.changed
       /\ calls = <<>>

\* C2: a dry-run invocation leaves the provider's state as it found it.
C2_DryRunNoEffect == params.check_mode => aws = aws0

\* C5: a tag selector that matches two or more route tables is an error, and
\* nothing is modified or deleted.
C5_AmbiguousTagsFail ==
    (/\ Ended
     /\ SelectsByTags
     /\ Cardinality(TablesTagged(aws0, Val(params.resource_tags))) >= 2)
    => /\ result.kind = "fail_json"
       /\ aws = aws0

\* C8: ensure-absent locates the table by route_table_id or else by tags;
\* changed is true exactly when a table was located; without dry-run that
\* table, and no other, is gone afterwards; when none is located the result is
\* changed=false, no error and no mutating call.
Located ==
    IF params.route_table_id # 0
    THEN {params.route_table_id} \cap Range(aws0.tables)
    ELSE TablesTagged(aws0, Val(params.resource_tags))

MaxSubnetRefs == 3

\* The VPCs: each of three subnets exists or not and is named "web" or "db";
\* IDs and CIDR blocks are unique within a VPC, names need not be.
SubnetChoices(id, cidr) == {<<>>} \cup {<<Subnet(id, cidr, n)>> : n \in {"web", "db"}}

SubnetDbs ==
    {a \o b \o c : a \in SubnetChoices("subnet-1", "10.0.1.0/24"),
                   b \in SubnetChoices("subnet-2", "10.0.2.0/24"),
                   c \in SubnetChoices("subnet-3", "10.0.3.0/24")}

SubnetRefs == {"subnet-1", "subnet-2", "10.0.1.0/24", "10.0.2.0/24", "web", "db"}

DomSubnets ==
    [worlds |-> Worlds({<<1>>}, {NoTags}, {<<LocalRoute>>}, <<>>),
     dbs |-> SubnetDbs,
     igws |-> {<<>>},
     params |-> Params({"present"}, {1}, {Nothing}, {Some(<<>>)},
                       SomeOf(SeqsUpTo(SubnetRefs, MaxSubnetRefs)),
                       {Some(<<>>)}, {FALSE}),
     faults |-> {None},
     pc |-> "find_subnets"]

\* find_subnets(vpc_conn, vpc_id, subnets) is called and returns or raises.
FindSubnets ==
    /\ pc = "find_subnets"
    /\ found' = find_subnets(subnetsDb, params.subnets)
    /\ pc' = "found"
    /\ UNCHANGED <<aws, subnetsDb, igws, params, route_table, changed, tags_valid,
                   routes, result, calls, fault, run, first, aws0>>
    /\ UNCHANGED rax_vars

SpecSubnets == InitFrom(DomSubnets) /\ [][FindSubnets]_vars

\* The subnets of the VPC that identifier ref denotes: by ID, by CIDR block or
\* by Name tag, according to its form.
Denoted(ref) ==
    {j \in 1..Len(subnetsDb) :
        IF SUBNET_RE(ref) THEN subnetsDb[j].id = ref
        ELSE IF CIDR_RE(ref) THEN subnetsDb[j].cidr_block = ref
        ELSE subnetsDb[j].name = ref}

Refs == Val(params.subnets)

\* C6: when some identifier of the list denotes no subnet or more than one,
\* find_subnets raises AnsibleSubnetSearchException and returns nothing,
\* whatever the other identifiers denote.
C6_RejectsNonUnique ==
    (pc = "found" /\ \E i \in 1..Len(Refs) : Cardinality(Denoted(Refs[i])) # 1)
    => /\ found.exc = "AnsibleSubnetSearchException"
       /\ found.subnets = <<>>

\* The class of an identifier: 1 for an ID, 2 for a CIDR block, 3 for a name.
RefClass(ref) == IF SUBNET_RE(ref) THEN 1 ELSE IF CIDR_RE(ref) THEN 2 ELSE 3

\* The class by which the k-th returned record answers the identifiers.
Answers(rec, ref) ==
    IF SUBNET_RE(ref) THEN rec.id = ref
    ELSE IF CIDR_RE(ref) THEN rec.cidr_block = ref
    ELSE rec.name = ref

\* C7: when every identifier of the list (identifiers pairwise different)
\* denotes exactly one subnet, find_subnets succeeds and returns one record per
\* identifier: the records of the IDs first, then those of the CIDR blocks,
\* then those of the names.
C7_ResolvesUnique ==
    (/\ pc = "found"
     /\ \A i \in 1..Len(Refs) : Cardinality(Denoted(Refs[i])) = 1
     /\ \A i, j \in 1..Len(Refs) : i # j => Refs[i] # Refs[j])
    => /\ found.exc = None
       /\ Len(found.subnets) = Len(Refs)
       /\ \E cls \in [1..Len(Refs) -> 1..Len(Refs)] :
             \* cls[k]: the identifier that the k-th record answers
             /\ \A i, j \in 1..Len(Refs) : i # j => cls[i] # cls[j]
             /\ \A k \in 1..Len(Refs) : Answers(found.subnets[k], Refs[cls[k]])
             /\ \A k, l \in 1..Len(Refs) :
                    k < l => RefClass(Refs[cls[k]]) <= RefClass(Refs[cls[l]])

(***************************************************************************)
(* Subnet associations: route tables 1 and 2, each subnet of the VPC        *)
(* associated with one of them or with none, a list of subnets requested   *)
(* by ID, by CIDR block or by name, and route_table_id 1, 2 or 3 (3 is     *)
(* not found, so a route table is created).                                *)
(***************************************************************************)
MaxAssocRefs == 2

AssocRefs == {"subnet-1", "subnet-2", "subnet-3", "10.0.2.0/24", "web"}

DomAssoc ==
    [worlds |-> Worlds({<<1, 2>>}, {NoTags}, {<<LocalRoute>>},
                       <<"subnet-1", "subnet-2", "subnet-3">>),
     dbs |-> {VpcSubnets},
     igws |-> {<<"igw-1">>},
     params |-> Params({"present"}, {1, 2, 3}, {Nothing}, {Some(<<>>)},
                       SomeOf(SeqsUpTo(AssocRefs, MaxAssocRefs)),
                       {Some(<<>>)}, BOOLEAN)
                \cup Params({"absent"}, {1}, {Nothing}, {Some(<<>>)}, {Nothing},
                            {Some(<<>>)}, {FALSE}),
     faults |-> {None},
     pc |-> "main"]

SpecAssoc == InitFrom(DomAssoc) /\ [][NextOnce]_vars

\* A subnet of the VPC is requested when an identifier of the list is its ID,
\* its CIDR block or its name.
Requested(s) ==
    \E i \in 1..Len(Val(params.subnets)) :
        Val(params.subnets)[i] \in {s.id, s.cidr_block, s.name}

\* The associations of subnet s in world.
AssociationsOfSubnet(world, s) ==
    {a \in Range(world.assocs) : a.subnet_id = s.id}

\* C3: after a successful non-dry-run ensure-present with a list of subnets,
\* every requested subnet has exactly one association, and it is with the
\* target route table.
C3_AssociationExclusive ==
    (/\ Ended
     /\ params.state = "present"
     /\ ~params.check_mode
     /\ result.kind = "exit_json"
     /\ Truthy(params.subnets))
    => \A j \in 1..Len(subnetsDb) :
          Requested(subnetsDb[j]) =>
             /\ Cardinality(AssociationsOfSubnet(aws, subnetsDb[j])) = 1
             /\ \A a \in AssociationsOfSubnet(aws, subnetsDb[j]) :
                    a.route_table_id = result.route_table_id

\* Two subnets were requested; one was associated with the other route table
\* and has been moved to the target.
C3_Witness ==
    /\ Ended
    /\ params.state = "present"
    /\ ~params.check_mode
    /\ result.kind = "exit_json"
    /\ Truthy(params.subnets)
    /\ Cardinality({j \in 1..Len(subnetsDb) : Requested(subnetsDb[j])}) = 2
    /\ \E a \in Range(aws0.assocs) :
          /\ a.route_table_id # result.route_table_id
          /\ \E j \in 1..Len(subnetsDb) :
                 Requested(subnetsDb[j]) /\ subnetsDb[j].id = a.subnet_id
          /\ a \notin Range(aws.assocs)

(***************************************************************************)
(* Routes: route table 1 with its local route and up to MaxRoutes further  *)
(* routes (one per destination), and up to MaxSpecs desired routes.        *)
(***************************************************************************)
MaxRoutes == 2
MaxSpecs == 2

ObservedRoutes ==
    {Route("0.0.0.0/0", "igw-1", None), Route("0.0.0.0/0", "vgw-1", None),
     Route("10.1.0.0/16", None, "i-1"), Route("10.1.0.0/16", "vgw-1", None),
     Route("10.2.0.0/16", "igw-1", None)}

DistinctDestinations(rs) ==
    \A i, j \in 1..Len(rs) :
        i # j => rs[i].destination_cidr_block # rs[j].destination_cidr_block

RouteLists ==
    {<<LocalRoute>> \o rs : rs \in {x \in SeqsUpTo(ObservedRoutes, MaxRoutes) :
                                        DistinctDestinations(x)}}

\* Desired routes as the playbook gives them: 'dest' and one target.
UserSpecs ==
    {[dest |-> "0.0.0.0/0", gateway_id |-> "igw"],
     [dest |-> "0.0.0.0/0", gateway_id |-> "vgw-1"],
     [dest |-> "10.1.0.0/16", instance_id |-> "i-1"],
     [dest |-> VpcCidr, gateway_id |-> "local"]}

DomRoutes ==
    [worlds |-> Worlds({<<1>>}, {NoTags}, RouteLists, <<>>),
     dbs |-> {VpcSubnets},
     igws |-> {<<"igw-1">>},
     params |-> Params({"present"}, {1}, {Nothing},
                       SomeOf(SeqsUpTo(UserSpecs, MaxSpecs)), {Nothing},
                       {Nothing, Some(<<>>), Some(<<"vgw-1">>)}, BOOLEAN)
                \cup Params({"present", "absent"}, {1}, {Nothing}, {Some(<<>>)},
                            {Some(<<"subnet-1">>)}, {Some(<<>>)}, {FALSE}),
     faults |-> {None},
     pc |-> "main"]

SpecRoutes == InitFrom(DomRoutes) /\ [][NextOnce]_vars

DeclaredVgws ==
    IF IsNone(params.propagating_vgw_ids) THEN {}
    ELSE Range(Val(params.propagating_vgw_ids))

\* A route the reconciler must keep: its gateway is "local" or a declared
\* propagating gateway.
Protected(r) == r.gateway_id = "local" \/ r.gateway_id \in DeclaredVgws

\* C4: no delete_route call is issued for an observed route whose gateway is
\* "local" or a declared propagating gateway, and none names the destination
\* of such a route of the table, matched by a desired route or not.
C4_ProtectedRoutesKept ==
    \A i \in 1..Len(calls) :
        calls[i].op = "delete_route" =>
            /\ ~Protected(calls[i].route)
            /\ \A j \in 1..Len(route_table.routes) :
                   Protected(route_table.routes[j]) =>
                       route_table.routes[j].destination_cidr_block
                           # calls[i].route.destination_cidr_block

\* ensure_routes has deleted a route while the table held, besides the local
\* route, a route through a declared propagating gateway that no desired route
\* matches; both are still in the table.
C4_Witness ==
    /\ pc = "subnets"
    /\ ~params.check_mode
    /\ \E i \in 1..Len(calls) : calls[i].op = "delete_route" /\ calls[i].ok
    /\ \E j \in 1..Len(route_table.routes) :
          /\ route_table.routes[j].gateway_id \in DeclaredVgws
          /\ \A k \in 1..Len(routes) :
                 ~route_spec_matches_route(routes[k], route_table.routes[j])
          /\ route_table.routes[j] \in Range(aws.routes[route_table.id])
    /\ LocalRoute \in Range(aws.routes[route_table.id])

(***************************************************************************)
(* The symbolic gateway "igw": VPCs with no, one or two internet gateways. *)
(***************************************************************************)
DomIgw ==
    [worlds |-> Worlds({<<>>, <<1>>}, {NoTags},
                       {<<LocalRoute>>, <<LocalRoute, Route("0.0.0.0/0", "igw-1", None)>>},
                       <<"subnet-1">>),
     dbs |-> {VpcSubnets},
     igws |-> {<<>>, <<"igw-1">>, <<"igw-1", "igw-2">>},
     params |-> Params({"present", "absent"}, {1}, {Nothing},
                       {Some(<<[dest |-> "0.0.0.0/0", gateway_id |-> "igw"]>>),
                        Some(<<[dest |-> "10.1.0.0/16", instance_id |-> "i-1"],
                               [dest |-> "0.0.0.0/0", gateway_id |-> "igw"]>>),
                        Some(<<[dest |-> "10.1.0.0/16", instance_id |-> "i-1"]>>)},
                       {Nothing, Some(<<"subnet-1">>)}, {Some(<<>>)}, BOOLEAN),
     faults |-> {None},
     pc |-> "main"]

SpecIgw == InitFrom(DomIgw) /\ [][NextOnce]_vars

\* C9: "igw" resolves to the ID of the VPC's internet gateway when there is
\* exactly one; with none or several the lookup fails with the IGW search
\* error, the invocation fails, and no route is created whose target is not a
\* gateway ID.
C9_IgwLookup ==
    (/\ pc # "main"
     /\ ~IsNone(params.routes)
     /\ \E i \in 1..Len(Val(params.routes)) : NamesIgw(Val(params.routes)[i]))
    => IF Len(igws) = 1
       THEN \A i \in 1..Len(routes) :
               NamesIgw(Val(params.routes)[i]) => routes[i]["gateway_id"] = igws[1]
       ELSE /\ pc = "done"
            /\ result.kind \in {"fail_json", "traceback"}
            /\ result.exc = "AnsibleIgwSearchException"
            /\ \A i \in 1..Len(calls) :
                   calls[i].op = "create_route" =>
                       calls[i].route.gateway_id # IgwExceptionObject

(***************************************************************************)
(* Provider failures: one API call of the run, or none, is answered with   *)
(* an EC2ResponseError.                                                    *)
(***************************************************************************)
ApiCalls == {"create_route_table", "delete_route_table",
             "enable_vgw_route_propagation", "create_tags", "delete_tags",
             "create_route", "delete_route", "associate_route_table",
             "disassociate_route_table", "get_all_route_tables", "get_all_tags",
             "get_all_subnets"}

DomFault ==
    [worlds |-> Worlds({<<>>, <<1, 2>>}, {NoTags},
                       {<<LocalRoute>>, <<LocalRoute, Route("10.1.0.0/16", None, "i-1")>>},
                       <<"subnet-1", "subnet-2">>),
     dbs |-> {VpcSubnets},
     igws |-> {<<"igw-1">>},
     params |-> Params({"present", "absent"}, {1}, {Nothing, Some(TagsPublic)},
                       {Some(<<[dest |-> "0.0.0.0/0", gateway_id |-> "igw-1"]>>)},
                       {Some(<<"subnet-1">>)}, {Some(<<"vgw-1">>)}, BOOLEAN),
     faults |-> ApiCalls \cup {None},
     pc |-> "main"]

SpecFault == InitFrom(DomFault) /\ [][NextOnce]_vars

\* C10: a provider failure in a step of ensure-present or in the delete of
\* ensure-absent reaches main() as the module's own exception with a message
\* naming the step, and the invocation ends with fail_json.
C10_FailuresWrapped ==
    (pc = "done" /\ \E i \in 1..Len(calls) : ~calls[i].ok)
    => /\ result.kind = "fail_json"
       /\ result.exc \in ModuleExceptions
       /\ result.msg # None

(***************************************************************************)
(* Tags: route table 1, and maybe 2, with no tags, Name=Public,            *)
(* Name=Private, Env=dev, or Name=Public and Env=dev; the table is         *)
(* selected by ID or by tags and resource_tags is the dict of tags it      *)
(* should carry.                                                           *)
(***************************************************************************)
DomTags ==
    [worlds |-> Worlds({<<1>>, <<1, 2>>},
                       {NoTags, TagsPublic, TagsPrivate, TagsPublicDev, TagsEnv},
                       {<<LocalRoute>>}, <<"subnet-1">>),
     dbs |-> {VpcSubnets},
     igws |-> {<<"igw-1">>},
     params |-> Params({"present"}, {0, 1, 3},
                       {Nothing, Some(TagsPublic), Some(TagsPublicDev)},
                       {Some(<<>>)}, {Nothing, Some(<<"subnet-1">>)},
                       {Some(<<>>)}, BOOLEAN)
                \cup Params({"absent"}, {1}, {Nothing}, {Some(<<>>)}, {Nothing},
                            {Some(<<>>)}, {FALSE}),
     faults |-> {None},
     pc |-> "main"]

SpecTags == InitFrom(DomTags) /\ [][NextOnce]_vars

\* C11: after a successful non-dry-run ensure-present with resource_tags, the
\* returned route table carries every key of resource_tags with the desired
\* value.
C11_TagsFinalState ==
    (/\ Ended
     /\ params.state = "present"
     /\ ~params.check_mode
     /\ result.kind = "exit_json"
     /\ ~IsNone(params.resource_tags))
    => tags_match(Val(params.resource_tags), aws.tags[result.route_table_id])

(***************************************************************************)
(* rax_mon_alarm: up to MaxAlarms alarms on entities en-1 and en-2, with    *)
(* labels cpu and disk, and an invocation for entity en-1.                 *)
(***************************************************************************)
MaxAlarms == 2

\* The alarms the provider may hold: alarms labelled cpu on entity en-1 with
\* check ch-1 and every criteria, disabled flag and metadata, one with check
\* ch-2, and two alarms the invocation is not about.
AlarmShapes ==
    [entity_id : {"en-1"}, label : {"cpu"}, check_id : {"ch-1"},
     notification_plan_id : {"np-1"}, criteria : {"", "if (x) CRITICAL"},
     disabled : BOOLEAN, metadata : {None, "{k: v}"}]
    \cup [entity_id : {"en-1"}, label : {"cpu"}, check_id : {"ch-2"},
          notification_plan_id : {"np-1"}, criteria : {"if (x) CRITICAL"},
          disabled : {FALSE}, metadata : {None}]
    \cup [entity_id : {"en-1", "en-2"}, label : {"disk"}, check_id : {"ch-1"},
          notification_plan_id : {"np-1"}, criteria : {"if (x) CRITICAL"},
          disabled : {FALSE}, metadata : {None}]

\* The provider's alarms: IDs are numbered in the order of creation.
Monitorings ==
    {[alarms |-> [i \in 1..Len(s) |->
                     [id |-> i, entity_id |-> s[i].entity_id, label |-> s[i].label,
                      check_id |-> s[i].check_id,
                      notification_plan_id |-> s[i].notification_plan_id,
                      criteria |-> s[i].criteria, disabled |-> s[i].disabled,
                      metadata |-> s[i].metadata]],
      next_id |-> Len(s) + 1] : s \in SeqsUpTo(AlarmShapes, MaxAlarms)}

\* The parameters of the invocation: the alarm cpu of entity en-1.
RaxParams ==
    [state : {"present", "absent"}, label : {"cpu"}, entity_id : {"en-1"},
     check_id : {"ch-1"}, notification_plan_id : {"np-1"},
     criteria : {None, "", "if (x) CRITICAL"},
     disabled : BOOLEAN, metadata : {None, "{k: v}"}]

\* Parameters the module refuses.
RaxParamsRefused ==
    [state : {"latest"}, label : {"cpu"}, entity_id : {"en-1"},
     check_id : {"ch-1"}, notification_plan_id : {"np-1"},
     criteria : {"if (x) CRITICAL"}, disabled : {FALSE}, metadata : {None}]
    \cup [state : {"present"}, label : {"cpu", ""}, entity_id : {"en-1"},
          check_id : {"ch-1"}, notification_plan_id : {None},
          criteria : {"if (x) CRITICAL"}, disabled : {FALSE}, metadata : {None}]
    \cup [state : {"present"}, label : {"cpu"}, entity_id : {"en-1"},
          check_id : {"ch-1"}, notification_plan_id : {"np-1"},
          criteria : {LongString}, disabled : {FALSE}, metadata : {None}]

RaxFaults == {"cloud_monitoring", "list_alarms", "update_alarm", "delete",
              "create_alarm"}

\* The invocations: every parameter set with a provider that answers, and the
\* invocations with criteria and metadata supplied with a failing call.
RaxInvocations ==
    /\ cm \in Monitorings
    /\ \/ rax_params \in RaxParams \cup RaxParamsRefused /\ rax_fault = None
       \/ /\ rax_params \in {p \in RaxParams : p.criteria = "if (x) CRITICAL"
                                              /\ p.metadata = "{k: v}"}
          /\ rax_fault \in RaxFaults

InitAlarm ==
    /\ RaxInvocations
    /\ rax_pc = "alarm"
    /\ RaxLocals
    /\ aws = World(<<>>, NoTags, NoTags, NoTags, <<>>)
    /\ aws0 = aws
    /\ subnetsDb = <<>>
    /\ igws = <<>>
    /\ params = NoParams
    /\ fault = None
    /\ pc = "idle"
    /\ route_table = NoTable
    /\ changed = FALSE
    /\ tags_valid = FALSE
    /\ routes = <<>>
    /\ found = NoFound
    /\ result = NoResult
    /\ calls = <<>>
    /\ run = 1
    /\ first = [result |-> NoResult, calls |-> <<>>, aws0 |-> aws]

SpecAlarm == InitAlarm /\ [][NextAlarm]_vars

\* The alarms of world on the invocation's entity with the invocation's label.
Labelled(monitoring) ==
    {a \in Range(monitoring.alarms) :
        a.entity_id = rax_params.entity_id /\ a.label = rax_params.label}

\* The alarms the invocation is not about.
Others(monitoring) == Range(monitoring.alarms) \ Labelled(monitoring)

\* C12: state=present.  With at most one alarm of the label on the entity, a
\* run that ends with exit_json leaves exactly one such alarm, with the
\* requested check and notification plan; an alarm whose check or plan
\* differed was deleted and a new one created.  With more than one, the run
\* fails and issues no call.
C12_PresentOneAlarm ==
    (rax_pc = "done" /\ rax_params.state = "present")
    => /\ (Cardinality(Labelled(cm0)) <= 1 /\ rax_result.kind = "exit_json")
          => /\ Cardinality(Labelled(cm)) = 1
             /\ \A a \in Labelled(cm) :
                   /\ a.check_id = rax_params.check_id
                   /\ a.notification_plan_id = rax_params.notification_plan_id
             /\ \A old \in Labelled(cm0) :
                   (\/ old.check_id # rax_params.check_id
                    \/ old.notification_plan_id # rax_params.notification_plan_id)
                   => /\ old.id \notin {a.id : a \in Range(cm.alarms)}
                      /\ rax_calls = <<RaxCall("delete", old.id),
                                       RaxCall("create_alarm", cm0.next_id)>>
       /\ Cardinality(Labelled(cm0)) > 1
          => /\ rax_result.kind # "exit_json"
             /\ (rax_fault = None /\ rax_params.criteria # None
                    /\ rax_params \in RaxParams)
                => rax_result.kind = "fail_json"
             /\ rax_calls = <<>>
             /\ cm = cm0

\* An alarm with another check was replaced, next to an alarm of another label.
C12_Witness ==
    /\ rax_pc = "done"
    /\ rax_params.state = "present"
    /\ rax_result.kind = "exit_json"
    /\ \E old \in Labelled(cm0) : old.check_id # rax_params.check_id
    /\ Others(cm0) # {}
    /\ Len(rax_calls) = 2

\* C13: state=absent.  After the run no alarm of the label is left on the
\* entity, the other alarms are as they were, and changed is true exactly when
\* an alarm of the label existed.
C13_AbsentNoAlarm ==
    (rax_pc = "done" /\ rax_params.state = "absent" /\ rax_fault = None)
    => /\ Labelled(cm) = {}
       /\ Others(cm) = Others(cm0)
       /\ rax_result.changed = (Labelled(cm0) # {})

(***************************************************************************)
(* Propagation: route table 1 with routes the gateways vgw-1 and vgw-2     *)
(* propagated, and up to MaxVgws propagating gateways desired.             *)
(***************************************************************************)
MaxVgws == 2

PropagatedRoutes ==
    {<<LocalRoute>>,
     <<LocalRoute, Route("10.1.0.0/16", "vgw-1", None)>>,
     <<LocalRoute, Route("10.2.0.0/16", "vgw-2", None)>>,
     <<LocalRoute, Route("10.1.0.0/16", "vgw-1", None),
       Route("10.2.0.0/16", "vgw-2", None)>>}

DomPropagation ==
    [worlds |-> Worlds({<<1>>}, {NoTags}, PropagatedRoutes, <<"subnet-1">>),
     dbs |-> {VpcSubnets},
     igws |-> {<<"igw-1">>},
     params |-> Params({"present"}, {1, 3}, {Nothing}, {Some(<<>>)},
                       {Nothing, Some(<<"subnet-1">>)},
                       SomeOf(SeqsUpTo({"vgw-1", "vgw-2", "vgw-3"}, MaxVgws))
                           \cup {Nothing},
                       BOOLEAN)
                \cup Params({"absent"}, {1}, {Nothing}, {Some(<<>>)}, {Nothing},
                            {Some(<<>>)}, {FALSE}),
     faults |-> {None},
     pc |-> "main"]

SpecPropagation == InitFrom(DomPropagation) /\ [][NextOnce]_vars

\* The desired gateways that no route of the located table has as its target.
Unpropagated ==
    {g \in DeclaredVgws :
        \A i \in 1..Len(route_table.routes) : route_table.routes[i].gateway_id # g}

\* C14: when ensure_propagation has returned, propagation has been enabled for
\* every desired gateway that no route of the table has as its target, and
\* with such a gateway the result is changed=true, whatever the other gateways
\* of the list are.
C14_PropagationPerGateway ==
    (pc = "tags" /\ ~IsNone(params.propagating_vgw_ids))
    => \A g \in Unpropagated :
          /\ \E i \in 1..Len(calls) :
                 /\ calls[i].op = "enable_vgw_route_propagation"
                 /\ calls[i].vgw = g
                 /\ calls[i].rtb = route_table.id
          /\ changed

(***************************************************************************)
(* The route diff, stated over the indices of the observed routes.         *)
(***************************************************************************)
TargetKeys == {"gateway_id", "instance_id", "interface_id",
               "vpc_peering_connection_id"}

\* The desired route and the observed route have the same destination and
\* the same value in every target field the desired route populates.
Agrees(route_spec, r) ==
    /\ route_spec["destination_cidr_block"] = r.destination_cidr_block
    /\ \A k \in DOMAIN route_spec \cap TargetKeys : route_spec[k] = r[k]

\* For the first k desired routes, in order, the index of the observed route
\* each one consumes: the least index not yet consumed of a route that agrees
\* with it, or 0 when there is none.
RECURSIVE Consumes(_, _, _)
Consumes(route_specs, observed, k) ==
    IF k = 0 THEN <<>>
    ELSE LET before == Consumes(route_specs, observed, k - 1)
             free == {i \in 1..Len(observed) :
                         /\ i \notin Range(before)
                         /\ Agrees(route_specs[k], observed[i])}
         IN  Append(before, IF free = {} THEN 0
                            ELSE CHOOSE i \in free : \A j \in free : i <= j)

Consumed == Consumes(routes, route_table.routes, Len(routes))

\* Select the elements of s at the indices of I, in order.
RECURSIVE AtIndices(_, _, _)
AtIndices(s, I, i) ==
    IF i > Len(s) THEN <<>>
    ELSE (IF i \in I THEN <<s[i]>> ELSE <<>>) \o AtIndices(s, I, i + 1)

ToCreate == AtIndices(routes, {k \in 1..Len(routes) : Consumed[k] = 0}, 1)

Unconsumed ==
    AtIndices(route_table.routes,
              {i \in 1..Len(route_table.routes) : i \notin Range(Consumed)}, 1)

ToDelete == SelectSeq(Unconsumed, LAMBDA r : ~Protected(r))

\* The create_route and delete_route calls the run has issued: <<op, route>>.
RouteCalls ==
    LET cs == SelectSeq(calls, LAMBDA c : c.op \in {"create_route", "delete_route"})
    IN  [i \in 1..Len(cs) |-> <<cs[i].op, cs[i].route>>]

\* C15: when ensure_routes has returned, it has issued a create_route for
\* each desired route that consumed no observed route, in order, then a
\* delete_route for each unconsumed observed route that is not protected, and
\* its changed is true exactly when one of the two lists is not empty.
C15_RouteDiff ==
    pc = "subnets"
    => /\ RouteCalls = [i \in 1..Len(ToCreate) |->
                           <<"create_route", RouteOfSpec(ToCreate[i])>>]
                       \o [i \in 1..Len(ToDelete) |-> <<"delete_route", ToDelete[i]>>]
       /\ (\A i \in 1..Len(calls) : calls[i].op \in {"create_route", "delete_route"})
          => changed = (ToCreate # <<>> \/ ToDelete # <<>>)

\* Two equal desired routes and one observed route that agrees with them: the
\* first consumed it and the second is created; another observed route is
\* deleted and a protected one is kept.
C15_Witness ==
    /\ pc = "subnets"
    /\ Len(routes) = 2
    /\ Consumed[1] # 0
    /\ Consumed[2] = 0
    /\ Agrees(routes[2], route_table.routes[Consumed[1]])
    /\ ToDelete # <<>>
    /\ Len(Unconsumed) > Len(ToDelete)
    /\ Len(RouteCalls) = 2

\* The desired routes name each destination once.
OneSpecPerDestination ==
    \A k, l \in 1..Len(routes) :
        k # l => routes[k]["destination_cidr_block"] # routes[l]["destination_cidr_block"]

\* C16: after ensure_routes has returned without error in a non-dry-run with
\* desired routes of distinct destinations, the table holds, for every desired
\* route, a route with its destination and target, and holds no other route
\* than protected ones.
C16_RoutesConverge ==
    (pc = "subnets" /\ ~params.check_mode /\ OneSpecPerDestination)
    => /\ \A k \in 1..Len(routes) :
              \E r \in Range(aws.routes[route_table.id]) : Agrees(routes[k], r)
       /\ \A r \in Range(aws.routes[route_table.id]) :
              Protected(r) \/ \E k \in 1..Len(routes) : Agrees(routes[k], r)

(***************************************************************************)
(* Associations of the target route table                                  *)
(***************************************************************************)
\* A successful non-dry-run ensure-present with a non-empty list of subnets.
Reconciled ==
    /\ Ended
    /\ params.state = "present"
    /\ ~params.check_mode
    /\ result.kind = "exit_json"
    /\ Truthy(params.subnets)

RequestedIds == {subnetsDb[j].id : j \in {i \in 1..Len(subnetsDb) : Requested(subnetsDb[i])}}

\* The associations of the returned route table in world.
TargetAssociations(world) ==
    {a \in Range(world.assocs) : a.route_table_id = result.route_table_id}

\* C17: after a successful non-dry-run reconciliation with a non-empty list of
\* subnets, the subnets associated with the target are the requested ones:
\* each association the target had with a subnet that is not requested has
\* been severed by a disassociate call, and each one it had with a requested
\* subnet is still there.
C17_StaleSevered ==
    Reconciled
    => /\ {a.subnet_id : a \in TargetAssociations(aws)} = RequestedIds
       /\ \A a \in TargetAssociations(aws0) :
             IF a.subnet_id \in RequestedIds
             THEN a \in Range(aws.assocs)
             ELSE /\ a \notin Range(aws.assocs)
                  /\ \E i \in 1..Len(calls) :
                         /\ calls[i].op = "disassociate_route_table"
                         /\ calls[i].assoc = a.id

\* The target had two associations: the one with a requested subnet is kept,
\* the other one has been severed.
C17_Witness ==
    /\ Reconciled
    /\ \E a, b \in TargetAssociations(aws0) :
          /\ a.subnet_id \in RequestedIds
          /\ a \in Range(aws.assocs)
          /\ b.subnet_id \notin RequestedIds
          /\ b \notin Range(aws.assocs)

\* The provider's state after the first n calls of cs, from world: a call the
\* provider refused, or a dry-run call, changes nothing.
RECURSIVE Replay(_, _, _)
Replay(world, cs, n) ==
    IF n = 0 THEN world
    ELSE LET before == Replay(world, cs, n - 1)
         IN  IF cs[n].ok /\ ~cs[n].dry_run THEN ApiApply(before, cs[n]) ELSE before

\* C18: every associate call for a subnet comes after the disassociate call of
\* each association the subnet had with another route table, and in no state
\* between two calls of the run has a subnet two associations.
C18_SeverBeforeBind ==
    /\ \A i \in 1..Len(calls) :
          (calls[i].op = "associate_route_table" /\ calls[i].ok)
          => \A a \in Range(aws0.assocs) :
                (a.subnet_id = calls[i].subnet /\ a.route_table_id # calls[i].rtb)
                => \E j \in 1..(i - 1) :
                       /\ calls[j].op = "disassociate_route_table"
                       /\ calls[j].assoc = a.id
                       /\ calls[j].ok
    /\ \A n \in 0..Len(calls) :
          \A j \in 1..Len(subnetsDb) :
              Cardinality(AssociationsOfSubnet(Replay(aws0, calls, n), subnetsDb[j])) <= 1
    /\ Replay(aws0, calls, Len(calls)) = aws

\* A requested subnet was associated with another route table: that
\* association was severed, then the subnet was bound to the target.
C18_Witness ==
    \E i, j \in 1..Len(calls) :
        /\ j < i
        /\ calls[j].op = "disassociate_route_table"
        /\ calls[i].op = "associate_route_table"
        /\ calls[j].subnet = calls[i].subnet
        /\ calls[j].rtb # calls[i].rtb
        /\ \E a \in Range(aws0.assocs) : a.id = calls[j].assoc

(***************************************************************************)
(* The order of the steps of ensure_route_table_present                    *)
(***************************************************************************)
\* The step of ensure_route_table_present that issues the call.
StepOf(op) ==
    CASE op = "create_route_table" -> 1
      [] op = "enable_vgw_route_propagation" -> 2
      [] op \in {"create_tags", "delete_tags"} -> 3
      [] op \in {"create_route", "delete_route"} -> 4
      [] op \in {"associate_route_table", "disassociate_route_table"} -> 5
      [] OTHER -> 0

\* C19: the calls of ensure-present come in the order of the steps (create
\* the table, propagation, tags, routes, associations); a call the provider
\* refused is the last call of the run, and the provider's state is then the
\* one the earlier calls made: nothing is undone.
C19_StepOrderNoRollback ==
    params.state = "present"
    => /\ \A i, j \in 1..Len(calls) :
              i < j => StepOf(calls[i].op) <= StepOf(calls[j].op)
       /\ \A i \in 1..Len(calls) : ~calls[i].ok => i = Len(calls) /\ pc = "done"
       /\ (pc = "done" /\ result.kind # "exit_json")
          => aws = Replay(aws0, calls, Len(calls))

\* The routes step failed after the propagation and tags steps had changed
\* the provider's state.
C19_Witness ==
    /\ pc = "done"
    /\ params.state = "present"
    /\ ~params.check_mode
    /\ result.kind = "fail_json"
    /\ Len(calls) >= 3
    /\ ~calls[Len(calls)].ok
    /\ calls[Len(calls)].op = "create_route"
    /\ \E i \in 1..Len(calls) : calls[i].op = "enable_vgw_route_propagation"
    /\ \E i \in 1..Len(calls) : calls[i].op = "create_tags"
    /\ aws # aws0

\* C20: a successful non-dry-run ensure-present returns changed=true exactly
\* when it issued a mutating call.
C20_ChangedAccurate ==
    (/\ Ended
     /\ params.state = "present"
     /\ ~params.check_mode
     /\ result.kind = "exit_json")
    => result.changed = (\E i \in 1..Len(calls) : calls[i].ok)

(***************************************************************************)
(* Dry-run against the real run: an invocation in check mode, then the     *)
(* same invocation without check mode from the provider's state the first  *)
(* one started in.                                                         *)
(***************************************************************************)
DomPreview ==
    [worlds |-> Worlds({<<>>, <<1>>, <<1, 2>>}, {NoTags, TagsPublic},
                       {<<LocalRoute>>}, <<"subnet-1">>),
     dbs |-> {VpcSubnets},
     igws |-> {<<"igw-1">>},
     params |-> Params({"present"}, {0, 1, 2}, {Nothing, Some(TagsPublic)},
                       {Some(<<>>)}, {Nothing, Some(<<"subnet-1">>)},
                       {Some(<<>>), Some(<<"vgw-1">>)}, {TRUE})
                \cup Params({"absent"}, {1}, {Nothing}, {Some(<<>>)}, {Nothing},
                            {Some(<<>>)}, {TRUE}),
     faults |-> {None},
     pc |-> "main"]

\* The invocation that ran in check mode runs again without it, from the
\* provider's state the first one started in.
RerunForReal ==
    /\ pc = "done"
    /\ run = 1
    /\ params.check_mode
    /\ run' = 2
    /\ first' = [result |-> result, calls |-> calls, aws0 |-> aws0]
    /\ params' = [params EXCEPT !.check_mode = FALSE]
    /\ aws' = aws0
    /\ pc' = "main"
    /\ route_table' = NoTable
    /\ changed' = FALSE
    /\ tags_valid' = FALSE
    /\ routes' = <<>>
    /\ found' = NoFound
    /\ result' = NoResult
    /\ calls' = <<>>
    /\ UNCHANGED <<subnetsDb, igws, fault, aws0>>
    /\ UNCHANGED rax_vars

NextPreview ==
    \/ Main
    \/ Locate
    \/ Delete
    \/ Create
    \/ Propagation
    \/ Tags
    \/ Routes
    \/ Subnets
    \/ Associations
    \/ Return
    \/ RerunForReal

SpecPreview == InitFrom(DomPreview) /\ [][NextPreview]_vars

\* C21: when ensure-present succeeds in check mode and without it, from the
\* same provider state with the same parameters, both return the same changed.
C21_DryRunPreviews ==
    (/\ run = 2
     /\ Ended
     /\ params.state = "present"
     /\ first.result.kind = "exit_json"
     /\ result.kind = "exit_json")
    => first.result.changed = result.changed

(***************************************************************************)
(* Tags that are not desired                                               *)
(***************************************************************************)
\* The keys of the desired tags (none when resource_tags is omitted).
DesiredKeys ==
    IF IsNone(params.resource_tags) THEN {} ELSE DOMAIN Val(params.resource_tags)

\* C22: ensure-present issues no delete_tags call, and every tag a route
\* table carried before the run under a key that is not desired is still
\* there with its value.
C22_AddOnlyKeepsTags ==
    params.state = "present"
    => /\ \A i \in 1..Len(calls) : calls[i].op # "delete_tags"
       /\ \A t \in Range(aws0.tables) :
             \A k \in DOMAIN aws0.tags[t] \ DesiredKeys :
                 /\ t \in Range(aws.tables)
                 /\ k \in DOMAIN aws.tags[t]
                 /\ aws.tags[t][k] = aws0.tags[t][k]

\* ensure_tags has added the desired tag to a table that carried a tag under
\* a key that is not desired; that tag is still there.
C22_Witness ==
    /\ pc = "done"
    /\ params.state = "present"
    /\ ~params.check_mode
    /\ result.kind = "exit_json"
    /\ result.route_table_id \in Range(aws0.tables)
    /\ \E i \in 1..Len(calls) :
          calls[i].op = "create_tags" /\ calls[i].rtb = result.route_table_id
    /\ DOMAIN aws0.tags[result.route_table_id] \ DesiredKeys # {}
    /\ DOMAIN aws.tags[result.route_table_id] \ DesiredKeys # {}

(***************************************************************************)
(* propagating_vgw_ids omitted                                             *)
(***************************************************************************)
\* C23: ensure-present with routes and without propagating_vgw_ids, when the
\* provider refuses no call, ends without error, issues no propagation call,
\* and (without dry-run) leaves in the table no unmatched observed route whose
\* target is not "local".
C23_OmittedVgwsEmpty ==
    (/\ Ended
     /\ params.state = "present"
     /\ IsNone(params.propagating_vgw_ids)
     /\ route_table # NoTable
     /\ \A i \in 1..Len(calls) : calls[i].ok)
    => /\ result.kind = "exit_json"
       /\ \A i \in 1..Len(calls) : calls[i].op # "enable_vgw_route_propagation"
       /\ ~params.check_mode
          => \A i \in 1..Len(Unconsumed) :
                 Unconsumed[i].gateway_id # "local"
                 => Unconsumed[i] \notin Range(aws.routes[route_table.id])

(***************************************************************************)
(* The fields of an alarm that is kept                                     *)
(***************************************************************************)
\* The run started with one alarm of the label on the entity, and its check
\* and notification plan are the requested ones.
KeptAlarm ==
    /\ Cardinality(Labelled(cm0)) = 1
    /\ \A a \in Labelled(cm0) :
          /\ a.check_id = rax_params.check_id
          /\ a.notification_plan_id = rax_params.notification_plan_id

\* C24: after a successful state=present run on an alarm whose check and
\* notification plan are the requested ones, the alarm's disabled flag is the
\* requested one, its criteria and metadata are the requested ones when they
\* are supplied, changed is true exactly when update_alarm was called, and the
\* second of two such runs returns changed=false.
C24_AlarmFieldsConverge ==
    (/\ rax_pc = "done"
     /\ rax_params.state = "present"
     /\ rax_result.kind = "exit_json"
     /\ KeptAlarm)
    => /\ \A a \in Labelled(cm) :
             /\ a.disabled = rax_params.disabled
             /\ RaxTruthy(rax_params.criteria) => a.criteria = rax_params.criteria
             /\ RaxTruthy(rax_params.metadata) => a.metadata = rax_params.metadata
       /\ rax_result.changed
             = (\E i \in 1..Len(rax_calls) : rax_calls[i].op = "update_alarm")
       /\ (rax_run = 2 /\ rax_first.result.kind = "exit_json")
          => ~rax_result.changed

====
